---- MODULE Spec2Model ----
(***************************************************************************)
(* turbogmailify: per-account IMAP -> Gmail relay (src/main.go).           *)
(*                                                                         *)
(* main starts one goroutine per configured IMAP account; each goroutine   *)
(* loops { doSession; time.Sleep(maxPollTime) }.  doSession dials, logs    *)
(* in, then alternates a drain loop (SELECT, FETCH 1, import to Gmail,     *)
(* STORE +\Deleted, EXPUNGE) with doIdle (IDLE until a mailbox update or   *)
(* the deadline).  The IMAP server, the Gmail API, the clock and other     *)
(* mail clients are the environment: every call may succeed or fail.       *)
(***************************************************************************)
EXTENDS Integers, Sequences, FiniteSets, TLC

\* ------------------------------------------------------------------ bounds
\* Highest UID a source mailbox ever assigns (messages present at start plus
\* later arrivals), per account.
MaxUid == 2

\* Highest number of mailbox-handler invocations that can be outstanding for
\* one goroutine at a time.
MaxPending == 1

\* const maxPollTime = 5 * time.Minute, in minutes.
maxPollTime == 5

\* make(chan *imapclient.UnilateralDataMailbox): no capacity is given, the
\* channel has no buffer.
ChanCap == 0

\* ------------------------------------------------------------- vocabulary
AllAccounts == {"A", "B"}
\* Identities of the channels (and of the connections whose handler closes
\* over them) a goroutine creates; 0 is "none yet".
ChanIds == 1..(MaxPending + 2)
NoChan == 0
\* msg == nil
NoMsg == 0
NoCmd == [op |-> "NONE", arg |-> 0]
NoImport == [uid |-> 0, result |-> "none"]
NoWake == [cause |-> "none", chan |-> 0]
\* No drain pass to account for: none under way, or one that something else
\* than the session disturbed.
NoDrain == [n |-> 0, done |-> 0, clean |-> FALSE]
\* A drain pass that begins with the next SELECT.
NewDrain == [n |-> -1, done |-> 0, clean |-> TRUE]

VARIABLES
    cfg,            \* cfg.Imap: the configured accounts, in file order
    spawned,        \* number of iterations of main's range loop done
    imapCreds,      \* per goroutine: the account its closure passes to doSession
    pc,             \* per goroutine: where it is in main's loop / doSession / doIdle
    client,         \* per goroutine: state of the connection of the running session
    connectedTo,    \* per goroutine: account whose server the connection is to
    mailboxUpdate,  \* per goroutine: the session's notification channel
    numMessages,    \* per goroutine: inbox.NumMessages of the last SELECT
    msg,            \* per goroutine: the fetched message (its uid; contents are
                    \* the bytes of <<account, uid>>), NoMsg when nil
    timer,          \* per goroutine: duration of the running timer or sleep
                    \* (minutes), 0 when none runs
    pending,        \* per goroutine: channels of the handler invocations under way
    lastCmd,        \* per goroutine: last IMAP command issued on the connection
    lastImport,     \* per goroutine: result of the last import call of the session
    wake,           \* per goroutine: what ended the last select of doIdle
    drain,          \* per goroutine: the drain pass under way (inner loop of
                    \* doSession): messages at its first SELECT, transfers
                    \* done, and whether nothing else changed the INBOX
    buffered,       \* per goroutine: values in the buffer of mailboxUpdate
    err,            \* per goroutine: the error the last call of doSession
                    \* returned, named by the operation that failed; "none"
                    \* before the first return and while a call runs
    failed,         \* per goroutine: UID of the message whose failed import
                    \* ended the last session while the message was in the
                    \* INBOX, until the next import call or until another
                    \* client removes a message (NoMsg then)
    conns,          \* per account: connections open to its IMAP server
    inbox,          \* per account: the server's INBOX, sequence of UIDs
    deleted,        \* per account: UIDs carrying the \Deleted flag
    nextUid,        \* per account: UID the next arriving message gets
    gmail,          \* per account: UIDs whose bytes Gmail has accepted
    duplicates      \* per account: UIDs Gmail has accepted more than once

taskVars == <<imapCreds, pc, client, connectedTo, mailboxUpdate, numMessages,
              msg, timer, pending, lastCmd, lastImport, wake, drain, err,
              failed, buffered>>
serverVars == <<inbox, deleted, nextUid>>
gmailVars == <<gmail, duplicates>>
vars == <<cfg, spawned, taskVars, serverVars, gmailVars, conns>>

Tasks == 1..Len(cfg)
Accounts == {cfg[i] : i \in 1..Len(cfg)}

\* INBOX of a fresh run: UIDs 1..n in ascending order.
Upto(n) == [k \in 1..n |-> k]

\* Remove the elements of a sequence that are in S, keeping the order.
RECURSIVE Without(_, _)
Without(s, S) ==
    IF s = <<>> THEN <<>>
    ELSE IF Head(s) \in S THEN Without(Tail(s), S)
         ELSE <<Head(s)>> \o Without(Tail(s), S)

Range(s) == {s[k] : k \in 1..Len(s)}

\* State common to every start: no connection, no channel, nothing imported.
InitWith(accounts) ==
    /\ cfg = accounts
    /\ client = [i \in 1..Len(accounts) |-> "nil"]
    /\ connectedTo = [i \in 1..Len(accounts) |-> "none"]
    /\ mailboxUpdate = [i \in 1..Len(accounts) |-> NoChan]
    /\ numMessages = [i \in 1..Len(accounts) |-> 0]
    /\ msg = [i \in 1..Len(accounts) |-> NoMsg]
    /\ timer = [i \in 1..Len(accounts) |-> 0]
    /\ pending = [i \in 1..Len(accounts) |-> {}]
    /\ lastCmd = [i \in 1..Len(accounts) |-> NoCmd]
    /\ lastImport = [i \in 1..Len(accounts) |-> NoImport]
    /\ wake = [i \in 1..Len(accounts) |-> NoWake]
    /\ drain = [i \in 1..Len(accounts) |-> NoDrain]
    /\ err = [i \in 1..Len(accounts) |-> "none"]
    /\ buffered = [i \in 1..Len(accounts) |-> 0]
    /\ failed = [i \in 1..Len(accounts) |-> NoMsg]
    /\ conns = [a \in Range(accounts) |-> 0]
    /\ deleted = [a \in Range(accounts) |-> {}]
    /\ gmail = [a \in Range(accounts) |-> {}]
    /\ duplicates = [a \in Range(accounts) |-> {}]

\* A configuration file with one account; its INBOX holds 0..MaxUid messages.
Init ==
    /\ InitWith(<<"A">>)
    /\ spawned = 0
    /\ imapCreds = [i \in {1} |-> "none"]
    /\ pc = [i \in {1} |-> "unborn"]
    /\ \E n \in 0..MaxUid :
          /\ inbox = [a \in {"A"} |-> Upto(n)]
          /\ nextUid = [a \in {"A"} |-> n + 1]

\* A configuration file with two accounts; both INBOXes are empty, no mail
\* comes for A and one message is still to come for B.
InitMulti ==
    /\ InitWith(<<"A", "B">>)
    /\ spawned = 0
    /\ imapCreds = [i \in {1, 2} |-> "none"]
    /\ pc = [i \in {1, 2} |-> "unborn"]
    /\ inbox = [a \in AllAccounts |-> <<>>]
    /\ nextUid = [a \in AllAccounts |-> IF a = "B" THEN MaxUid ELSE MaxUid + 1]

\* The single-account program (src/unnamed/part_000): main itself runs the
\* loop, with the account given by the -address, -username and -password
\* flags.
InitFlags ==
    /\ InitWith(<<"A">>)
    /\ spawned = 1
    /\ imapCreds = [i \in {1} |-> "A"]
    /\ pc = [i \in {1} |-> "session"]
    /\ \E n \in 0..MaxUid :
          /\ inbox = [a \in {"A"} |-> Upto(n)]
          /\ nextUid = [a \in {"A"} |-> n + 1]

\* ------------------------------------------------------------------- main
\* The imapCreds variable the closure started in iteration k of main's range
\* loop refers to.  The language version of the build (the go directive of
\* go.mod, which src/ does not hold) decides whether each iteration has its
\* own variable; the account record is "one instance per configured account
\* ... handed by reference to exactly one Session Manager", so the closure of
\* iteration k holds the k-th account.
LoopVar(k) == cfg[k]

\* main's loop starting every goroutine with the first account.
GoFuncFirstAccount ==
    /\ spawned < Len(cfg)
    /\ spawned' = spawned + 1
    /\ imapCreds' = [imapCreds EXCEPT ![spawned + 1] = cfg[1]]
    /\ pc' = [pc EXCEPT ![spawned + 1] = "session"]
    /\ UNCHANGED <<cfg, buffered, err, failed, conns, client, connectedTo,
                   mailboxUpdate, numMessages, msg, timer, pending, lastCmd,
                   lastImport, wake, drain, serverVars, gmailVars>>

\* One iteration of "for _, imapCreds := range cfg.Imap { go func() {...}() }":
\* the goroutine of the next account is started; its closure passes
\* &imapCreds to every call of doSession.
GoFunc ==
    /\ spawned < Len(cfg)
    /\ spawned' = spawned + 1
    /\ imapCreds' = [imapCreds EXCEPT ![spawned + 1] = LoopVar(spawned + 1)]
    /\ pc' = [pc EXCEPT ![spawned + 1] = "session"]
    /\ UNCHANGED <<cfg, buffered, err, failed, conns, client, connectedTo,
                   mailboxUpdate, numMessages, msg, timer, pending, lastCmd,
                   lastImport, wake, drain, serverVars, gmailVars>>

\* ------------------------------------------------------------ doSession
\* make(chan ...): a channel distinct from the previous session's and from
\* every channel a handler invocation still under way holds.
NewChan(i) ==
    CHOOSE c \in ChanIds :
        /\ c \notin pending[i] \cup {mailboxUpdate[i]}
        /\ \A d \in ChanIds :
              d \notin pending[i] \cup {mailboxUpdate[i]} => c <= d

\* doSession's error paths calling log.Fatalf instead of returning: the
\* process, and with it every goroutine, ends.
ReturnErrFatal(i) ==
    /\ pc' = [j \in Tasks |-> "exited"]
    /\ client' = [j \in Tasks |-> "closed"]
    /\ numMessages' = [numMessages EXCEPT ![i] = 0]
    /\ msg' = [msg EXCEPT ![i] = NoMsg]
    /\ timer' = [timer EXCEPT ![i] = 0]
    /\ drain' = [drain EXCEPT ![i] = NoDrain]
    /\ err' = [err EXCEPT ![i] = pc[i]]
    /\ failed' = [failed EXCEPT ![i] =
                      IF pc[i] = "import"
                         /\ msg[i] \in Range(inbox[connectedTo[i]])
                      THEN msg[i] ELSE NoMsg]
    /\ conns' = [conns EXCEPT ![connectedTo[i]] = @ - 1]

\* The loop of main's goroutine without its time.Sleep: doSession is called
\* again at once.
ReturnErrNoCooldown(i) ==
    /\ pc' = [pc EXCEPT ![i] = "session"]
    /\ client' = [client EXCEPT ![i] = "closed"]
    /\ numMessages' = [numMessages EXCEPT ![i] = 0]
    /\ msg' = [msg EXCEPT ![i] = NoMsg]
    /\ timer' = [timer EXCEPT ![i] = 0]
    /\ drain' = [drain EXCEPT ![i] = NoDrain]
    /\ err' = [err EXCEPT ![i] = pc[i]]
    /\ failed' = [failed EXCEPT ![i] =
                      IF pc[i] = "import"
                         /\ msg[i] \in Range(inbox[connectedTo[i]])
                      THEN msg[i] ELSE NoMsg]
    /\ conns' = [conns EXCEPT ![connectedTo[i]] = @ - 1]

\* doSession logging a failure and trying the operation again instead of
\* returning.
ReturnErrRetry(i) ==
    /\ err' = [err EXCEPT ![i] = pc[i]]
    /\ UNCHANGED <<pc, client, numMessages, msg, timer, drain, failed, conns>>

\* doSession without "defer client.Close()": the connection stays open when
\* the function returns.
ReturnErrNoClose(i) ==
    /\ pc' = [pc EXCEPT ![i] = "sleep"]
    /\ numMessages' = [numMessages EXCEPT ![i] = 0]
    /\ msg' = [msg EXCEPT ![i] = NoMsg]
    /\ timer' = [timer EXCEPT ![i] = maxPollTime]
    /\ drain' = [drain EXCEPT ![i] = NoDrain]
    /\ err' = [err EXCEPT ![i] = pc[i]]
    /\ failed' = [failed EXCEPT ![i] =
                      IF pc[i] = "import"
                         /\ msg[i] \in Range(inbox[connectedTo[i]])
                      THEN msg[i] ELSE NoMsg]
    /\ UNCHANGED <<client, conns>>

\* doSession returns an error after the connection was opened: the deferred
\* client.Close() runs, the locals go out of scope and the goroutine reaches
\* time.Sleep(maxPollTime).
ReturnErr(i) ==
    /\ pc' = [pc EXCEPT ![i] = "sleep"]
    /\ client' = [client EXCEPT ![i] = "closed"]
    /\ numMessages' = [numMessages EXCEPT ![i] = 0]
    /\ msg' = [msg EXCEPT ![i] = NoMsg]
    /\ timer' = [timer EXCEPT ![i] = maxPollTime]
    /\ drain' = [drain EXCEPT ![i] = NoDrain]
    /\ err' = [err EXCEPT ![i] = pc[i]]
    /\ failed' = [failed EXCEPT ![i] =
                      IF pc[i] = "import"
                         /\ msg[i] \in Range(inbox[connectedTo[i]])
                      THEN msg[i] ELSE NoMsg]
    /\ conns' = [conns EXCEPT ![connectedTo[i]] = @ - 1]

\* Entry of doSession: the channel and handler are made, then DialTLS.
DialTLS(i) ==
    /\ pc[i] = "session"
    /\ mailboxUpdate' = [mailboxUpdate EXCEPT ![i] = NewChan(i)]
    /\ lastImport' = [lastImport EXCEPT ![i] = NoImport]
    /\ wake' = [wake EXCEPT ![i] = NoWake]
    /\ lastCmd' = [lastCmd EXCEPT ![i] = NoCmd]
    /\ buffered' = [buffered EXCEPT ![i] = 0]
    /\ \/ /\ pc' = [pc EXCEPT ![i] = "login"]
          /\ client' = [client EXCEPT ![i] = "connected"]
          /\ connectedTo' = [connectedTo EXCEPT ![i] = imapCreds[i]]
          /\ conns' = [conns EXCEPT ![imapCreds[i]] = @ + 1]
          /\ err' = [err EXCEPT ![i] = "none"]
          /\ UNCHANGED <<timer, failed>>
       \/ /\ pc' = [pc EXCEPT ![i] = "sleep"]
          /\ client' = [client EXCEPT ![i] = "nil"]
          /\ timer' = [timer EXCEPT ![i] = maxPollTime]
          /\ err' = [err EXCEPT ![i] = "dial"]
          /\ failed' = [failed EXCEPT ![i] = NoMsg]
          /\ UNCHANGED <<connectedTo, conns>>
    /\ UNCHANGED <<cfg, spawned, imapCreds, numMessages, msg, pending, drain,
                   serverVars, gmailVars>>

\* client.Login(imap.Username, imap.Password).Wait()
Login(i) ==
    /\ pc[i] = "login"
    /\ lastCmd' = [lastCmd EXCEPT ![i] = [op |-> "LOGIN", arg |-> 0]]
    /\ \/ /\ pc' = [pc EXCEPT ![i] = "select"]
          /\ client' = [client EXCEPT ![i] = "authed"]
          /\ drain' = [drain EXCEPT ![i] = NewDrain]
          /\ UNCHANGED <<numMessages, msg, timer, err, failed, conns>>
       \/ ReturnErr(i)
    /\ UNCHANGED <<cfg, buffered, spawned, imapCreds, connectedTo,
                   mailboxUpdate,
                   pending, lastImport, wake, serverVars, gmailVars>>

\* The test with the bound off by one.
DrainedOffByOne(count) == count <= 1

\* "if inbox.NumMessages <= 0 { break }"
Drained(count) == count <= 0

\* client.Select("INBOX", nil).Wait() and the test of inbox.NumMessages.
Select(i) ==
    /\ pc[i] = "select"
    /\ lastCmd' = [lastCmd EXCEPT ![i] = [op |-> "SELECT", arg |-> 0]]
    /\ \/ /\ numMessages' =
                [numMessages EXCEPT ![i] = Len(inbox[connectedTo[i]])]
          /\ client' = [client EXCEPT ![i] = "selected"]
          /\ pc' = [pc EXCEPT ![i] =
                        IF Drained(numMessages'[i]) THEN "idle" ELSE "fetch"]
          /\ drain' = [drain EXCEPT ![i] =
                           IF @ = NewDrain
                           THEN [@ EXCEPT !.n = Len(inbox[connectedTo[i]])]
                           ELSE @]
          /\ UNCHANGED <<msg, timer, err, failed, conns>>
       \/ ReturnErr(i)
    /\ UNCHANGED <<cfg, buffered, spawned, imapCreds, connectedTo,
                   mailboxUpdate,
                   pending, lastImport, wake, serverVars, gmailVars>>

\* FETCH of the highest sequence position ("*") instead of position 1.
FetchSeqLast(a) ==
    IF Len(inbox[a]) >= 1 THEN <<inbox[a][Len(inbox[a])]>> ELSE <<>>

\* The messages FETCH 1 returns: the one at sequence position 1, if any.
FetchSeq1(a) == IF Len(inbox[a]) >= 1 THEN <<inbox[a][1]>> ELSE <<>>

\* doSession without "if msg == nil { break }": it goes on to the import
\* with no message.
EmptyFetchNoNilTest(i) ==
    /\ pc' = [pc EXCEPT ![i] = "import"]
    /\ UNCHANGED <<numMessages, msg, client, timer, drain, err, failed, conns>>

\* FETCH returned no message: fetchFirstMessage returns nil, nil
\* ("if len(messages) <= 0") and doSession leaves the inner loop
\* ("if msg == nil { break }").
EmptyFetch(i) ==
    /\ pc' = [pc EXCEPT ![i] = "idle"]
    /\ numMessages' = [numMessages EXCEPT ![i] = 0]
    /\ UNCHANGED <<msg, client, timer, drain, err, failed, conns>>

\* fetchFirstMessage(client) and the two tests after it in doSession.
fetchFirstMessage(i) ==
    /\ pc[i] = "fetch"
    /\ lastCmd' = [lastCmd EXCEPT ![i] = [op |-> "FETCH", arg |-> 1]]
    /\ \/ LET messages == FetchSeq1(connectedTo[i]) IN
          IF Len(messages) <= 0
          THEN EmptyFetch(i)
          ELSE /\ msg' = [msg EXCEPT ![i] = messages[1]]
               /\ pc' = [pc EXCEPT ![i] = "import"]
               /\ UNCHANGED <<client, numMessages, timer, drain, err, failed,
                              conns>>
       \/ ReturnErr(i)
    /\ UNCHANGED <<cfg, buffered, spawned, imapCreds, connectedTo,
                   mailboxUpdate,
                   pending, lastImport, wake, serverVars, gmailVars>>

\* Outcomes of Import(...).Do(): HTTP 200, a response with another status and
\* no error, or an error.
ImportOutcomes == {"ok200", "status", "error"}

\* importToGmail with the test of err left out.
importResultNoErrTest(outcome) == IF outcome = "status" THEN "err" ELSE "nil"

\* importToGmail with the test of r.HTTPStatusCode left out.
importResultNoStatusTest(outcome) == IF outcome = "error" THEN "err" ELSE "nil"

\* importToGmail logging every failure and returning nil.
importResultAlwaysNil(outcome) == "nil"

\* What importToGmail returns for an outcome of Do(): nil only for HTTP 200.
importResult(outcome) == IF outcome = "ok200" THEN "nil" ELSE "err"

\* The destination after Do() with that outcome for the bytes of <<a, uid>>.
Accepted(outcome) == outcome = "ok200"

\* The same function in the single-account program (src/unnamed/part_000): a
\* status other than 200 is logged and nil is returned.
importResultLogOnly(outcome) == IF outcome = "error" THEN "err" ELSE "nil"

\* The import call and the test of its result in doSession; logOnly tells
\* which of the two importToGmail the program has.
importCall(i, logOnly) ==
    /\ pc[i] = "import"
    /\ \E outcome \in ImportOutcomes :
          LET a == connectedTo[i]
              r == IF logOnly THEN importResultLogOnly(outcome)
                   ELSE importResult(outcome) IN
          /\ lastImport' = [lastImport EXCEPT ![i] =
                                [uid |-> msg[i], result |-> outcome]]
          /\ IF Accepted(outcome)
             THEN /\ gmail' = [gmail EXCEPT ![a] = @ \cup {msg[i]}]
                  /\ duplicates' = [duplicates EXCEPT ![a] =
                                        @ \cup ({msg[i]} \cap gmail[a])]
             ELSE UNCHANGED gmailVars
          /\ IF r = "nil"
             THEN /\ pc' = [pc EXCEPT ![i] = "store"]
                  /\ failed' = [failed EXCEPT ![i] = NoMsg]
                  /\ UNCHANGED <<client, numMessages, msg, timer, drain,
                                 err, conns>>
             ELSE ReturnErr(i)
    /\ UNCHANGED <<cfg, buffered, spawned, imapCreds, connectedTo,
                   mailboxUpdate,
                   pending, lastCmd, wake, serverVars>>

\* msg.importToGmail(mail) of src/main.go, called from doSession.
importToGmail(i) == importCall(i, FALSE)

\* msg.importToGmail(mail) of the single-account program, called from its
\* doSession.
importToGmailLogOnly(i) == importCall(i, TRUE)

\* A UID set that covers the whole mailbox ("1:*").
UIDSetAll(uid) == 1..(MaxUid + 1)

\* imap.UIDSetNum(uid): the set that holds this UID only.
UIDSetNum(uid) == {uid}

\* deleteMessage, first command: UID STORE uid +FLAGS.SILENT (\Deleted).
Store(i) ==
    /\ pc[i] = "store"
    /\ lastCmd' = [lastCmd EXCEPT ![i] = [op |-> "STORE", arg |-> msg[i]]]
    /\ \/ /\ deleted' = [deleted EXCEPT ![connectedTo[i]] =
                            @ \cup (UIDSetNum(msg[i])
                                      \cap Range(inbox[connectedTo[i]]))]
          /\ pc' = [pc EXCEPT ![i] = "expunge"]
          /\ UNCHANGED <<client, numMessages, msg, timer, drain, err, failed,
                         conns>>
       \/ /\ ReturnErr(i)
          /\ UNCHANGED deleted
    /\ UNCHANGED <<cfg, buffered, spawned, imapCreds, connectedTo,
                   mailboxUpdate,
                   pending, lastImport, wake, inbox, nextUid, gmailVars>>

\* A drain loop that keeps the count of its first SELECT and counts down
\* instead of selecting again after each transfer.
ExpungeKeepsCount(i) ==
    /\ pc[i] = "expunge"
    /\ lastCmd' = [lastCmd EXCEPT ![i] = [op |-> "EXPUNGE", arg |-> 0]]
    /\ \/ LET a == connectedTo[i] IN
          /\ inbox' = [inbox EXCEPT ![a] = Without(@, deleted[a])]
          /\ deleted' = [deleted EXCEPT ![a] = {}]
          /\ pc' = [pc EXCEPT ![i] =
                        IF numMessages[i] > 1 THEN "fetch" ELSE "idle"]
          /\ numMessages' = [numMessages EXCEPT ![i] = @ - 1]
          /\ msg' = [msg EXCEPT ![i] = NoMsg]
          /\ drain' = [drain EXCEPT ![i] =
                           IF @.clean THEN [@ EXCEPT !.done = @ + 1] ELSE @]
          /\ UNCHANGED <<client, timer, err, failed, conns>>
       \/ /\ ReturnErr(i)
          /\ UNCHANGED <<inbox, deleted>>
    /\ UNCHANGED <<cfg, buffered, spawned, imapCreds, connectedTo,
                   mailboxUpdate, pending, lastImport, wake, nextUid,
                   gmailVars>>

\* deleteMessage, second command: EXPUNGE removes every message that carries
\* \Deleted; then doSession's inner loop starts over.
Expunge(i) ==
    /\ pc[i] = "expunge"
    /\ lastCmd' = [lastCmd EXCEPT ![i] = [op |-> "EXPUNGE", arg |-> 0]]
    /\ \/ LET a == connectedTo[i] IN
          /\ inbox' = [inbox EXCEPT ![a] = Without(@, deleted[a])]
          /\ deleted' = [deleted EXCEPT ![a] = {}]
          /\ pc' = [pc EXCEPT ![i] = "select"]
          /\ numMessages' = [numMessages EXCEPT ![i] = 0]
          /\ msg' = [msg EXCEPT ![i] = NoMsg]
          /\ drain' = [drain EXCEPT ![i] =
                           IF @.clean THEN [@ EXCEPT !.done = @ + 1] ELSE @]
          /\ UNCHANGED <<client, timer, err, failed, conns>>
       \/ /\ ReturnErr(i)
          /\ UNCHANGED <<inbox, deleted>>
    /\ UNCHANGED <<cfg, buffered, spawned, imapCreds, connectedTo,
                   mailboxUpdate,
                   pending, lastImport, wake, nextUid, gmailVars>>

\* ---------------------------------------------------------------- doIdle
\* client.Idle() and time.NewTimer(deadline), deadline being maxPollTime.
Idle(i) ==
    /\ pc[i] = "idle"
    /\ lastCmd' = [lastCmd EXCEPT ![i] = [op |-> "IDLE", arg |-> 0]]
    /\ \/ /\ client' = [client EXCEPT ![i] = "idling"]
          /\ IF buffered[i] > 0
             THEN \* a value is in the buffer: "case <-mailboxUpdate" is
                  \* taken at once
                  /\ pc' = [pc EXCEPT ![i] = "idleClose"]
                  /\ timer' = [timer EXCEPT ![i] = 0]
                  /\ wake' = [wake EXCEPT ![i] =
                                  [cause |-> "update", chan |-> mailboxUpdate[i]]]
                  /\ buffered' = [buffered EXCEPT ![i] = @ - 1]
             ELSE /\ pc' = [pc EXCEPT ![i] = "wait"]
                  /\ timer' = [timer EXCEPT ![i] = maxPollTime]
                  /\ wake' = [wake EXCEPT ![i] = NoWake]
                  /\ UNCHANGED buffered
          /\ drain' = [drain EXCEPT ![i] = NoDrain]
          /\ UNCHANGED <<numMessages, msg, err, failed, conns>>
       \/ /\ ReturnErr(i)
          /\ UNCHANGED <<wake, buffered>>
    /\ UNCHANGED <<cfg, spawned, imapCreds, connectedTo, mailboxUpdate,
                   pending, lastImport, serverVars, gmailVars>>

\* doIdle waiting for the mailbox update alone, with no timer.
TimerFireNoTimer(i) ==
    /\ FALSE
    /\ UNCHANGED vars

\* case <-timer.C: the deadline has elapsed and the timer fires.
TimerFire(i) ==
    /\ pc[i] = "wait"
    /\ timer[i] > 0
    /\ timer' = [timer EXCEPT ![i] = 0]
    /\ pc' = [pc EXCEPT ![i] = "idleClose"]
    /\ wake' = [wake EXCEPT ![i] = [cause |-> "timer", chan |-> 0]]
    /\ UNCHANGED <<cfg, buffered, spawned, err, failed, conns, imapCreds,
                   client,
                   connectedTo,
                   mailboxUpdate, numMessages, msg, pending, lastCmd, drain,
                   lastImport, serverVars, gmailVars>>

\* One channel for all sessions of the goroutine instead of one per session.
HandlerChanShared(i, ch) == mailboxUpdate[i]

\* The channel the handler made by the session of channel ch sends on: the
\* closure holds that session's own mailboxUpdate.
HandlerChan(i, ch) == ch

\* A handler whose send is never taken.
MailboxHandlerDrops(i) ==
    \E ch \in pending[i] :
       /\ pending' = [pending EXCEPT ![i] = @ \ {ch}]
       /\ UNCHANGED <<cfg, buffered, spawned, err, failed, conns, imapCreds, pc,
                      client, connectedTo,
                      mailboxUpdate, numMessages, msg, timer, lastCmd,
                      lastImport, wake, drain, serverVars, gmailVars>>

\* The Mailbox callback of dataHandler runs for one unilateral mailbox update:
\* a non-blocking send on the channel, taken by a doIdle that is blocked in
\* its select on that channel ("case <-mailboxUpdate: timer.Stop()"), put in
\* the buffer when there is room, dropped otherwise ("default:").
MailboxHandler(i) ==
    \E ch \in pending[i] :
       /\ pending' = [pending EXCEPT ![i] = @ \ {ch}]
       /\ IF pc[i] = "wait" /\ HandlerChan(i, ch) = mailboxUpdate[i]
          THEN /\ pc' = [pc EXCEPT ![i] = "idleClose"]
               /\ timer' = [timer EXCEPT ![i] = 0]
               /\ wake' = [wake EXCEPT ![i] = [cause |-> "update", chan |-> ch]]
               /\ UNCHANGED buffered
          ELSE IF HandlerChan(i, ch) = mailboxUpdate[i] /\ buffered[i] < ChanCap
          THEN /\ buffered' = [buffered EXCEPT ![i] = @ + 1]
               /\ UNCHANGED <<pc, timer, wake>>
          ELSE UNCHANGED <<pc, timer, wake, buffered>>
       /\ UNCHANGED <<cfg, spawned, err, failed, conns, imapCreds, client,
                      connectedTo,
                      mailboxUpdate, numMessages, msg, lastCmd, drain,
                      lastImport, serverVars, gmailVars>>

\* doIdle returning right after idle.Close(), without idle.Wait().
IdleCloseReturns(i) ==
    /\ pc[i] = "idleClose"
    /\ lastCmd' = [lastCmd EXCEPT ![i] = [op |-> "DONE", arg |-> 0]]
    /\ wake' = [wake EXCEPT ![i] = NoWake]
    /\ \/ /\ pc' = [pc EXCEPT ![i] = "select"]
          /\ drain' = [drain EXCEPT ![i] = NewDrain]
          /\ UNCHANGED <<client, numMessages, msg, timer, err, failed, conns>>
       \/ ReturnErr(i)
    /\ UNCHANGED <<cfg, buffered, spawned, imapCreds, connectedTo,
                   mailboxUpdate,
                   pending, lastImport, serverVars, gmailVars>>

\* idle.Close(): DONE is sent.
IdleClose(i) ==
    /\ pc[i] = "idleClose"
    /\ lastCmd' = [lastCmd EXCEPT ![i] = [op |-> "DONE", arg |-> 0]]
    /\ \/ /\ pc' = [pc EXCEPT ![i] = "idleWait"]
          /\ UNCHANGED <<client, numMessages, msg, timer, wake, drain, err,
                         failed, conns>>
       \/ /\ ReturnErr(i)
          /\ wake' = [wake EXCEPT ![i] = NoWake]
    /\ UNCHANGED <<cfg, buffered, spawned, imapCreds, connectedTo,
                   mailboxUpdate,
                   pending, lastImport, serverVars, gmailVars>>

\* doSession without its outer loop: after one drain pass and one idle wait
\* it returns nil.
IdleWaitReturnsNil(i) ==
    /\ pc[i] = "idleWait"
    /\ wake' = [wake EXCEPT ![i] = NoWake]
    /\ \/ /\ client' = [client EXCEPT ![i] = "closed"]
          /\ pc' = [pc EXCEPT ![i] = "sleep"]
          /\ timer' = [timer EXCEPT ![i] = maxPollTime]
          /\ conns' = [conns EXCEPT ![connectedTo[i]] = @ - 1]
          /\ UNCHANGED <<numMessages, msg, drain, err, failed>>
       \/ ReturnErr(i)
    /\ UNCHANGED <<cfg, buffered, spawned, imapCreds, connectedTo,
                   mailboxUpdate,
                   pending, lastCmd, lastImport, serverVars, gmailVars>>

\* idle.Wait(): the server's completion of IDLE; doIdle returns nil and the
\* outer loop of doSession starts over.
IdleWait(i) ==
    /\ pc[i] = "idleWait"
    /\ wake' = [wake EXCEPT ![i] = NoWake]
    /\ \/ /\ client' = [client EXCEPT ![i] = "selected"]
          /\ pc' = [pc EXCEPT ![i] = "select"]
          /\ drain' = [drain EXCEPT ![i] = NewDrain]
          /\ UNCHANGED <<numMessages, msg, timer, err, failed, conns>>
       \/ ReturnErr(i)
    /\ UNCHANGED <<cfg, buffered, spawned, imapCreds, connectedTo,
                   mailboxUpdate,
                   pending, lastCmd, lastImport, serverVars, gmailVars>>

\* ------------------------------------------------------ main's goroutine
\* time.Sleep(maxPollTime) returns and the loop calls doSession again.
SleepDone(i) ==
    /\ pc[i] = "sleep"
    /\ timer[i] > 0
    /\ timer' = [timer EXCEPT ![i] = 0]
    /\ pc' = [pc EXCEPT ![i] = "session"]
    /\ UNCHANGED <<cfg, buffered, spawned, err, failed, conns, imapCreds,
                   client,
                   connectedTo,
                   mailboxUpdate, numMessages, msg, pending, lastCmd, drain,
                   lastImport, wake, serverVars, gmailVars>>

\* ----------------------------------------------------------- environment
\* Goroutines whose connection has INBOX of account a selected.
Watching(a) ==
    {i \in Tasks : connectedTo[i] = a /\ client[i] \in {"selected", "idling"}}

\* The passes after a change of the INBOX of account a that is not the
\* session's own: a pass under way on that INBOX is no longer undisturbed.
Disturbed(a) ==
    [i \in Tasks |->
        IF connectedTo[i] = a /\ drain[i].clean /\ drain[i] # NewDrain
        THEN NoDrain ELSE drain[i]]

\* A message arrives in the INBOX of account a; the server may send a
\* unilateral mailbox update on connections that have it selected, which
\* starts the connection's Mailbox handler.
Arrive(a) ==
    /\ nextUid[a] <= MaxUid
    /\ inbox' = [inbox EXCEPT ![a] = Append(@, nextUid[a])]
    /\ nextUid' = [nextUid EXCEPT ![a] = @ + 1]
    /\ \E told \in SUBSET Watching(a) :
          /\ \A i \in told : Cardinality(pending[i] \cup {mailboxUpdate[i]})
                                <= MaxPending
          /\ pending' = [i \in Tasks |->
                            IF i \in told THEN pending[i] \cup {mailboxUpdate[i]}
                            ELSE pending[i]]
    /\ drain' = Disturbed(a)
    /\ UNCHANGED <<cfg, buffered, spawned, err, failed, conns, imapCreds, pc,
                   client,
                   connectedTo,
                   mailboxUpdate, numMessages, msg, timer, lastCmd,
                   lastImport, wake, deleted, gmailVars>>

\* Another mail client removes a message from the INBOX of account a.
ExternalExpunge(a) ==
    /\ \E u \in Range(inbox[a]) :
          /\ inbox' = [inbox EXCEPT ![a] = Without(@, {u})]
          /\ deleted' = [deleted EXCEPT ![a] = @ \ {u}]
    /\ drain' = Disturbed(a)
    /\ failed' = [i \in Tasks |->
                     IF connectedTo[i] = a THEN NoMsg ELSE failed[i]]
    /\ UNCHANGED <<cfg, buffered, spawned, err, conns, imapCreds, pc, client,
                   connectedTo,
                   mailboxUpdate, numMessages, msg, timer, pending, lastCmd,
                   lastImport, wake, nextUid, gmailVars>>

Next ==
    \/ GoFunc
    \/ \E i \in Tasks : DialTLS(i)
    \/ \E i \in Tasks : Login(i)
    \/ \E i \in Tasks : Select(i)
    \/ \E i \in Tasks : fetchFirstMessage(i)
    \/ \E i \in Tasks : importToGmail(i)
    \/ \E i \in Tasks : Store(i)
    \/ \E i \in Tasks : Expunge(i)
    \/ \E i \in Tasks : Idle(i)
    \/ \E i \in Tasks : TimerFire(i)
    \/ \E i \in Tasks : MailboxHandler(i)
    \/ \E i \in Tasks : IdleClose(i)
    \/ \E i \in Tasks : IdleWait(i)
    \/ \E i \in Tasks : SleepDone(i)
    \/ \E a \in Accounts : Arrive(a)
    \/ \E a \in Accounts : ExternalExpunge(a)

Spec == Init /\ [][Next]_vars

\* The same program with two configured accounts.
SpecMulti == InitMulti /\ [][Next]_vars

\* The single-account program: no goroutine is started, and importToGmail is
\* the variant that only logs a status other than 200.
NextFlags ==
    \/ \E i \in Tasks : DialTLS(i)
    \/ \E i \in Tasks : Login(i)
    \/ \E i \in Tasks : Select(i)
    \/ \E i \in Tasks : fetchFirstMessage(i)
    \/ \E i \in Tasks : importToGmailLogOnly(i)
    \/ \E i \in Tasks : Store(i)
    \/ \E i \in Tasks : Expunge(i)
    \/ \E i \in Tasks : Idle(i)
    \/ \E i \in Tasks : TimerFire(i)
    \/ \E i \in Tasks : MailboxHandler(i)
    \/ \E i \in Tasks : IdleClose(i)
    \/ \E i \in Tasks : IdleWait(i)
    \/ \E i \in Tasks : SleepDone(i)
    \/ \E a \in Accounts : Arrive(a)
    \/ \E a \in Accounts : ExternalExpunge(a)

SpecFlags == InitFlags /\ [][NextFlags]_vars

\* The timers of the Go runtime fire: a pending timer.C delivers and a
\* time.Sleep returns once its duration has elapsed.
TimersFire ==
    /\ WF_vars(TimerFire(1))
    /\ WF_vars(SleepDone(1))

SpecFair == Spec /\ TimersFire

\* The calls goroutine i makes in doSession and doIdle, each of which
\* returns.
SessionStep(i) ==
    \/ DialTLS(i) \/ Login(i) \/ Select(i) \/ fetchFirstMessage(i)
    \/ importToGmail(i) \/ Store(i) \/ Expunge(i) \/ Idle(i)
    \/ IdleClose(i) \/ IdleWait(i)

\* The program with its goroutines scheduled: main starts the goroutine, the
\* goroutine's calls return and the timers fire.
SpecLive ==
    Spec /\ TimersFire /\ WF_vars(GoFunc) /\ WF_vars(SessionStep(1))

\* The two-account program with main's goroutine running: its range loop
\* does not block, so the next "go func" is executed.
SpecMultiFair == SpecMulti /\ WF_vars(GoFunc)

\* -------------------------------------------------------------- properties
\* Goroutine i issues the IMAP command op in this step.
Issues(i, op) == lastCmd'[i] # lastCmd[i] /\ lastCmd'[i].op = op

\* The import call of goroutine i returns in this step.
ImportReturns(i) == pc[i] = "import" /\ pc'[i] # "import"

\* C1: a STORE +\Deleted (and the EXPUNGE after it) is issued for a UID only
\* when the last import call of the same session was for that message and
\* returned success, with no other command in between; and once an import has
\* returned success the session holds that message for deletion and its next
\* step issues the STORE for that UID.
C1_DeleteIffImportSucceeded ==
    [][\A i \in Tasks :
          /\ Issues(i, "STORE") =>
                /\ lastImport[i] = [uid |-> lastCmd'[i].arg, result |-> "ok200"]
                /\ lastCmd[i].op = "FETCH"
          /\ Issues(i, "EXPUNGE") =>
                /\ lastCmd[i].op = "STORE"
                /\ lastImport[i] = [uid |-> lastCmd[i].arg, result |-> "ok200"]
          /\ (ImportReturns(i) /\ lastImport'[i].result = "ok200") =>
                /\ pc'[i] = "store"
                /\ msg'[i] = lastImport'[i].uid
                /\ lastCmd'[i] = lastCmd[i]
          /\ (pc[i] = "store" /\ pc'[i] # "store") =>
                lastCmd'[i] = [op |-> "STORE", arg |-> lastImport[i].uid]
    ]_vars

\* A message was imported with success and then removed by STORE and EXPUNGE.
C1_Witness ==
    \E i \in Tasks :
       /\ lastCmd[i].op = "EXPUNGE"
       /\ pc[i] = "select"
       /\ lastImport[i].result = "ok200"
       /\ lastImport[i].uid \in gmail[connectedTo[i]]
       /\ lastImport[i].uid \notin Range(inbox[connectedTo[i]])

\* C2: an import call that completes with a status other than 200 is a
\* failure: importToGmail returns an error, the session ends in the same step
\* with no further command, and no STORE or EXPUNGE follows it.
C2_NonOkStatusIsFailure ==
    [][\A i \in Tasks :
          /\ (ImportReturns(i) /\ lastImport'[i].result = "status") =>
                /\ pc'[i] = "sleep"
                /\ client'[i] = "closed"
                /\ lastCmd'[i] = lastCmd[i]
          /\ (Issues(i, "STORE") \/ Issues(i, "EXPUNGE")) =>
                lastImport[i].result # "status"
    ]_vars

\* C3: when the import call fails (error or status other than 200) the INBOX
\* and its flags are as before, no command is issued and the connection is
\* closed in the same step; nothing is ever issued on a closed connection.
C3_FailedImportLeavesSource ==
    [][\A i \in Tasks :
          /\ (ImportReturns(i) /\ lastImport'[i].result \in {"status", "error"}) =>
                /\ inbox' = inbox
                /\ deleted' = deleted
                /\ lastCmd'[i] = lastCmd[i]
                /\ client'[i] = "closed"
          /\ (client[i] = "closed" /\ lastCmd'[i] # lastCmd[i]) =>
                (pc[i] = "session" /\ lastCmd'[i] = NoCmd)
    ]_vars

\* A session ended by a failed import, the message still in the INBOX and not
\* flagged.
C3_Witness ==
    \E i \in Tasks :
       /\ pc[i] = "sleep"
       /\ client[i] = "closed"
       /\ lastCmd[i].op = "FETCH"
       /\ lastImport[i].result \in {"status", "error"}
       /\ lastImport[i].uid \in Range(inbox[connectedTo[i]])
       /\ lastImport[i].uid \notin deleted[connectedTo[i]]

\* C4: no message is imported again after an import of it returned success.
C4_NeverImportedAgain == \A a \in Accounts : duplicates[a] = {}

\* C5: in a drain pass that nothing but the session itself disturbs and in
\* which no call has failed, the transfers done and the messages left add up
\* to the N messages of its first SELECT; the pass ends (control at doIdle)
\* only after a SELECT that found the INBOX empty, with exactly N transfers
\* done; with N = 0 the first SELECT is the pass's only command: the step that
\* issues it passes control to doIdle.
C5_InPass(i) ==
    (drain[i].clean /\ drain[i].n >= 0) =>
       /\ pc[i] \in {"fetch", "import", "store", "expunge", "select", "idle"}
       /\ drain[i].done + Len(inbox[connectedTo[i]]) = drain[i].n
       /\ pc[i] = "idle" =>
             /\ drain[i].done = drain[i].n
             /\ inbox[connectedTo[i]] = <<>>
             /\ numMessages[i] = 0
             /\ lastCmd[i].op = "SELECT"
             /\ msg[i] = NoMsg

C5_DrainCompleteness ==
    /\ [](\A i \in Tasks : C5_InPass(i))
    /\ [][\A i \in Tasks :
             (drain[i] = NewDrain /\ drain'[i].clean /\ drain'[i].n = 0) =>
                (Issues(i, "SELECT") /\ pc'[i] = "idle")
       ]_vars

\* An undisturbed pass over two or more messages has ended.
C5_Witness ==
    \E i \in Tasks :
       /\ pc[i] = "idle"
       /\ drain[i].clean
       /\ drain[i].n >= 2
       /\ drain[i].done = drain[i].n

\* C6: doIdle leaves its wait only for idle.Close(), and only because the
\* handler delivered a mailbox update on the session's channel (the timer,
\* not yet fired, is stopped) or because the timer fired; an update the
\* handler sends on that channel while doIdle waits always ends the wait; and
\* with the timer firing, the wait always ends.
C6_IdleWake ==
    /\ [][\A i \in Tasks :
             /\ (pc[i] = "wait" /\ pc'[i] # "wait") =>
                   /\ pc'[i] = "idleClose"
                   /\ \/ /\ wake'[i].cause = "update"
                         /\ pending'[i] = pending[i] \ {mailboxUpdate[i]}
                         /\ mailboxUpdate[i] \in pending[i]
                         /\ timer[i] = maxPollTime
                         /\ timer'[i] = 0
                      \/ /\ wake'[i].cause = "timer"
                         /\ pending'[i] = pending[i]
                         /\ timer[i] = maxPollTime
             /\ (/\ pc[i] = "wait"
                 /\ mailboxUpdate[i] \in pending[i]
                 /\ pending'[i] = pending[i] \ {mailboxUpdate[i]}) =>
                   (pc'[i] = "idleClose" /\ wake'[i].cause = "update")
       ]_vars
    /\ (pc[1] = "wait") ~> (pc[1] # "wait")

\* doIdle was woken by a mailbox update.
C6_Witness ==
    \E i \in Tasks : pc[i] = "idleClose" /\ wake[i].cause = "update"

\* C7: SELECT, FETCH, STORE and EXPUNGE are issued only on a connection that
\* is not idling; a wait that ends goes to idle.Close(), which sends DONE, and
\* then to idle.Wait(); doIdle returns to the drain loop only from idle.Wait()
\* with the idle ended, and a failure of either closes the connection, on
\* which nothing more is issued.
C7_NoCommandWhileIdling ==
    [][\A i \in Tasks :
          /\ (/\ lastCmd'[i] # lastCmd[i]
              /\ lastCmd'[i].op \in {"SELECT", "FETCH", "STORE", "EXPUNGE"}) =>
                client[i] # "idling"
          /\ (pc[i] = "wait" /\ pc'[i] # "wait") => pc'[i] = "idleClose"
          /\ (pc[i] = "idleClose" /\ pc'[i] # "idleClose") =>
                /\ lastCmd'[i].op = "DONE"
                /\ \/ pc'[i] = "idleWait"
                   \/ pc'[i] = "sleep" /\ client'[i] = "closed"
          /\ (pc[i] = "idleWait" /\ pc'[i] # "idleWait") =>
                \/ pc'[i] = "select" /\ client'[i] = "selected"
                \/ pc'[i] = "sleep" /\ client'[i] = "closed"
          /\ (client[i] = "closed" /\ lastCmd'[i] # lastCmd[i]) =>
                lastCmd'[i] = NoCmd
    ]_vars

\* doIdle has returned nil and the drain loop is about to SELECT.
C7_Witness ==
    \E i \in Tasks :
       pc[i] = "select" /\ lastCmd[i].op = "DONE" /\ client[i] = "selected"

\* Everything goroutine i owns.
TaskState(i) ==
    <<imapCreds[i], pc[i], client[i], connectedTo[i], mailboxUpdate[i],
      numMessages[i], msg[i], timer[i], pending[i], lastCmd[i], lastImport[i],
      wake[i], drain[i], err[i], failed[i], buffered[i]>>

\* The INBOX of account a and what Gmail holds of it.
AccountState(a) ==
    <<inbox[a], deleted[a], nextUid[a], gmail[a], duplicates[a], conns[a]>>

\* A step of goroutine i, handler and timer included.
TaskStep(i) ==
    \/ DialTLS(i) \/ Login(i) \/ Select(i) \/ fetchFirstMessage(i)
    \/ importToGmail(i) \/ Store(i) \/ Expunge(i) \/ Idle(i) \/ TimerFire(i)
    \/ MailboxHandler(i) \/ IdleClose(i) \/ IdleWait(i) \/ SleepDone(i)

C9_RestartAfterCooldown ==
    /\ [][\A i \in Tasks :
             /\ (pc'[i] = "session" /\ pc[i] # "session") =>
                   \/ pc[i] = "unborn"
                   \/ pc[i] = "sleep" /\ timer[i] = maxPollTime /\ timer'[i] = 0
             /\ (pc[i] \notin {"unborn", "session", "sleep"}
                 /\ client'[i] = "closed") =>
                   (pc'[i] = "sleep" /\ timer'[i] = maxPollTime)
             /\ (pc[i] = "session" /\ pc'[i] # "session") =>
                   \/ pc'[i] = "login"
                   \/ pc'[i] = "sleep" /\ timer'[i] = maxPollTime
       ]_vars
    /\ (pc[1] = "sleep") ~> (pc[1] = "session")

\* doSession is about to be called again after a session that got as far as
\* EXPUNGE.
C9_Witness ==
    \E i \in Tasks :
       pc[i] = "session" /\ client[i] = "closed" /\ lastCmd[i].op = "EXPUNGE"

\* C10: a session starts on a channel that is not the previous one's nor one
\* a handler of an earlier session still holds, with a connection that is
\* not logged in, no command issued and no result of an earlier import; its
\* first command is LOGIN and each FETCH directly follows a SELECT of the
\* same connection; only a handler of the session's own channel wakes doIdle,
\* a handler of an earlier one changes nothing but its own completion.
C10_FreshSession ==
    /\ [](\A i \in Tasks :
             wake[i].cause = "update" => wake[i].chan = mailboxUpdate[i])
    /\ [][\A i \in Tasks :
             /\ (pc[i] = "session" /\ pc'[i] # "session") =>
                   /\ mailboxUpdate'[i] \notin pending[i] \cup {mailboxUpdate[i]}
                   /\ client'[i] \in {"connected", "nil"}
                   /\ lastCmd'[i] = NoCmd
                   /\ lastImport'[i] = NoImport
                   /\ msg'[i] = NoMsg /\ numMessages'[i] = 0
                   /\ drain'[i] = NoDrain /\ wake'[i] = NoWake
             /\ (lastCmd[i] = NoCmd /\ lastCmd'[i] # NoCmd) =>
                   lastCmd'[i].op = "LOGIN"
             /\ Issues(i, "FETCH") => lastCmd[i].op = "SELECT"
             /\ (\E ch \in pending[i] :
                    ch # mailboxUpdate[i] /\ pending'[i] = pending[i] \ {ch}) =>
                   (pc'[i] = pc[i] /\ wake'[i] = wake[i] /\ timer'[i] = timer[i])
       ]_vars

\* A restarted session waits in doIdle while a handler of an earlier session
\* is still under way.
C10_Witness ==
    \E i \in Tasks :
       /\ pc[i] = "wait"
       /\ \E ch \in pending[i] : ch # mailboxUpdate[i]

\* The connection of goroutine i is open (dialled and not closed).
Open(i) == client[i] \notin {"nil", "closed"}

\* C11: whenever doSession is not running (before its first call, after a
\* return during the cool-down, before the next dial) the connection it
\* opened is closed, or none was opened; the connections open to an account's
\* server are exactly those of running sessions, and never more than one.
C11_ClosedOnReturn ==
    /\ \A i \in Tasks :
          pc[i] \in {"unborn", "session", "sleep"} => ~Open(i)
    /\ \A a \in Accounts :
          /\ conns[a] =
                Cardinality({i \in Tasks : connectedTo[i] = a /\ Open(i)})
          /\ conns[a] <= 1

\* doSession returned because STORE failed, and its connection is closed.
C11_Witness ==
    \E i \in Tasks :
       /\ pc[i] = "sleep"
       /\ err[i] = "store"
       /\ client[i] = "closed"
       /\ conns[connectedTo[i]] = 0
\* An operation of goroutine i fails in this step (DialTLS included).
Fails(i) ==
    /\ pc[i] \notin {"unborn", "sleep"}
    /\ err'[i] # "none"
    /\ (err'[i] # err[i] \/ pc'[i] # pc[i])

\* C12: the step in which an operation fails ends the session: doSession
\* returns the error of that operation, the connection is closed (none was
\* opened when the dial failed) and no message is held.  From then on nothing
\* is issued and nothing is imported until a new call of doSession has made
\* its own channel and connection; commands and imports happen on open
\* connections of sessions without an error only.
C12_FailureIsTerminal ==
    [][\A i \in Tasks :
          /\ Fails(i) =>
                /\ pc'[i] = "sleep"
                /\ ~Open(i)'
                /\ err'[i] = (IF pc[i] = "session" THEN "dial" ELSE pc[i])
                /\ msg'[i] = NoMsg
          /\ err[i] # "none" =>
                \/ /\ lastCmd'[i] = lastCmd[i]
                   /\ lastImport'[i] = lastImport[i]
                   /\ gmail' = gmail
                   /\ ~Open(i)'
                \/ /\ pc[i] = "session"
                   /\ mailboxUpdate'[i] # mailboxUpdate[i]
                   /\ lastCmd'[i] = NoCmd
          /\ (lastCmd'[i] # lastCmd[i] /\ lastCmd'[i] # NoCmd) =>
                Open(i) /\ err[i] = "none"
          /\ ImportReturns(i) => Open(i) /\ err[i] = "none"
    ]_vars

\* A session ended by a failed FETCH while the INBOX still holds a message:
\* nothing was fetched again, imported or deleted after the failure.
C12_Witness ==
    \E i \in Tasks :
       /\ pc[i] = "sleep"
       /\ err[i] = "fetch"
       /\ lastCmd[i].op = "FETCH"
       /\ lastImport[i] = NoImport
       /\ Len(inbox[connectedTo[i]]) > 0
\* The handler of goroutine i runs in this step for a notification of the
\* running session's own channel.
Notified(i) ==
    /\ Open(i)
    /\ mailboxUpdate[i] \in pending[i]
    /\ pending'[i] = pending[i] \ {mailboxUpdate[i]}

\* C13: the hand-off is a single slot.  A notification the handler gets while
\* none is held is taken by the waiting doIdle at once or held in the
\* channel; one that comes while one is held is dropped; a held one leaves
\* the channel only when doIdle receives it or the session is over; at most
\* one is held; and the handler can always run to its end.
C13_SingleSlot ==
    /\ [](\A i \in Tasks : pending[i] # {} => ENABLED MailboxHandler(i))
    /\ [][\A i \in Tasks :
            /\ buffered'[i] <= 1
            /\ Notified(i) =>
                  IF buffered[i] = 0
                  THEN \/ pc[i] = "wait" /\ wake'[i].cause = "update"
                       \/ buffered'[i] = 1
                  ELSE buffered'[i] = buffered[i]
            /\ buffered'[i] < buffered[i] =>
                  wake'[i].cause = "update" \/ ~Open(i)'
       ]_vars
\* C14: every FETCH is for sequence position 1 and follows directly on the
\* SELECT of the same iteration; the message it yields is the first of the
\* INBOX at that moment; and when an import is made, no message of the INBOX
\* precedes the imported one (it is still first if still present, and every
\* message left has a higher UID, so transfers go in ascending order).
C14_FirstPositionFirst ==
    [][\A i \in Tasks :
          LET a == connectedTo[i] IN
          /\ Issues(i, "FETCH") =>
                /\ lastCmd'[i].arg = 1
                /\ lastCmd[i].op = "SELECT"
          /\ (pc[i] = "fetch" /\ pc'[i] = "import") =>
                /\ Len(inbox[a]) >= 1
                /\ msg'[i] = inbox[a][1]
          /\ ImportReturns(i) =>
                /\ \A k \in 1..Len(inbox[a]) : inbox[a][k] = msg[i] => k = 1
                /\ \A u \in Range(inbox[a]) : u >= msg[i]
                /\ \A u \in gmail'[a] \ gmail[a] : u = msg[i]
    ]_vars

\* UID 2 has been imported after UID 1 was transferred and removed, and is
\* the first message of the INBOX.
C14_Witness ==
    \E i \in Tasks :
       /\ pc[i] = "store"
       /\ msg[i] = 2
       /\ gmail[connectedTo[i]] = {1, 2}
       /\ Len(inbox[connectedTo[i]]) >= 1
       /\ inbox[connectedTo[i]][1] = 2
\* C15: when the import of a message fails the session ends with the message
\* left in the INBOX; as long as no other client removes a message, the next
\* session that gets as far finds the INBOX non-empty at its first SELECT,
\* its FETCH of position 1 (the first iteration of its first drain pass)
\* yields that same message, and its first import call is for it.
C15_RetryNextSession ==
    [][\A i \in Tasks :
          LET a == connectedTo[i] IN
          /\ (ImportReturns(i) /\ lastImport'[i].result \in {"status", "error"}) =>
                /\ pc'[i] = "sleep"
                /\ failed'[i] =
                      (IF msg[i] \in Range(inbox[a]) THEN msg[i] ELSE NoMsg)
                /\ inbox'[a] = inbox[a]
          /\ failed[i] # NoMsg =>
                /\ Len(inbox[a]) >= 1 /\ inbox[a][1] = failed[i]
                /\ lastImport[i].result # "ok200"
                /\ (pc[i] = "select" /\ pc'[i] \notin {"select", "sleep"}) =>
                      pc'[i] = "fetch"
                /\ (pc[i] = "fetch" /\ pc'[i] \notin {"fetch", "sleep"}) =>
                      /\ pc'[i] = "import"
                      /\ lastCmd'[i] = [op |-> "FETCH", arg |-> 1]
                      /\ msg'[i] = failed[i]
                      /\ drain[i].done = 0
                /\ ImportReturns(i) => lastImport'[i].uid = failed[i]
    ]_vars

\* UID 1 was transferred, the import of UID 2 failed and ended the session,
\* and the next session has fetched UID 2 again and is about to import it.
C15_Witness ==
    \E i \in Tasks :
       /\ pc[i] = "import"
       /\ failed[i] = 2
       /\ msg[i] = 2
       /\ lastImport[i] = NoImport
       /\ gmail[connectedTo[i]] = {1}
\* C16: when the SELECT of the iteration counted at least one message and
\* the FETCH of position 1 comes back with no message and no error, the step
\* ends the drain pass: nothing is imported, flagged or expunged, the
\* connection stays as it is, no message is held, and the goroutine is at
\* doIdle, whose IDLE is the next command on the connection.
C16_EmptyFetchIsDrained ==
    [][\A i \in Tasks :
          LET a == connectedTo[i] IN
          /\ (/\ Issues(i, "FETCH")
              /\ numMessages[i] > 0
              /\ Len(inbox[a]) = 0
              /\ err'[i] = "none") =>
                /\ pc'[i] = "idle"
                /\ client'[i] = client[i] /\ Open(i)'
                /\ msg'[i] = NoMsg
                /\ lastImport'[i] = lastImport[i]
                /\ <<inbox, deleted, gmail, duplicates>>' =
                      <<inbox, deleted, gmail, duplicates>>
          /\ (pc[i] = "idle" /\ lastCmd'[i] # lastCmd[i]) =>
                lastCmd'[i].op = "IDLE"
    ]_vars

\* SELECT counted a message, another client removed it, FETCH came back
\* empty and the session is at doIdle with its connection open.
C16_Witness ==
    \E i \in Tasks :
       /\ pc[i] = "idle"
       /\ lastCmd[i] = [op |-> "FETCH", arg |-> 1]
       /\ client[i] = "selected"
       /\ msg[i] = NoMsg
       /\ lastImport[i] = NoImport
       /\ inbox[connectedTo[i]] = <<>>
\* C17: STORE is issued for the UID of the message just fetched and
\* imported, adds \Deleted to that message and changes no other flag and no
\* message; when it succeeds EXPUNGE is the next command, issued in every
\* case, and removes what is flagged; when STORE fails doSession returns
\* that error and no EXPUNGE follows; when EXPUNGE fails doSession returns
\* that error and the INBOX and its flags stay as they were, the message
\* flagged.
C17_DeleteMessage ==
    [][\A i \in Tasks :
          LET a == connectedTo[i] IN
          /\ Issues(i, "STORE") =>
                /\ lastCmd'[i].arg = msg[i]
                /\ msg[i] = lastImport[i].uid
                /\ inbox' = inbox
                /\ deleted[a] \subseteq deleted'[a]
                /\ deleted'[a] \ deleted[a] \subseteq {msg[i]}
                /\ IF err'[i] = "none"
                   THEN /\ pc'[i] = "expunge"
                        /\ msg[i] \in Range(inbox[a]) => msg[i] \in deleted'[a]
                   ELSE /\ err'[i] = "store"
                        /\ pc'[i] = "sleep"
                        /\ deleted' = deleted
          /\ (pc[i] = "expunge" /\ pc'[i] # "expunge") => Issues(i, "EXPUNGE")
          /\ Issues(i, "EXPUNGE") =>
                /\ lastCmd[i] = [op |-> "STORE", arg |-> msg[i]]
                /\ err[i] = "none"
                /\ IF err'[i] = "none"
                   THEN /\ inbox'[a] = Without(inbox[a], deleted[a])
                        /\ deleted'[a] = {}
                   ELSE /\ err'[i] = "expunge"
                        /\ pc'[i] = "sleep"
                        /\ inbox' = inbox
                        /\ deleted' = deleted
    ]_vars

\* EXPUNGE failed with a second message in the INBOX: the session is over,
\* the imported message is still there and is the only one flagged.
C17_Witness ==
    \E i \in Tasks :
       /\ pc[i] = "sleep"
       /\ err[i] = "expunge"
       /\ inbox[connectedTo[i]] = <<1, 2>>
       /\ deleted[connectedTo[i]] = {1}
\* The goroutines main has started.
Started == {i \in Tasks : pc[i] # "unborn"}

Phase(i) ==
    CASE pc[i] = "unborn" -> "None"
      [] pc[i] = "session" -> "Connecting"
      [] pc[i] = "login" -> "Authenticating"
      [] pc[i] \in {"select", "fetch", "import", "store", "expunge"} -> "Draining"
      [] pc[i] \in {"idle", "wait", "idleClose", "idleWait"} -> "Idling"
      [] OTHER -> "Closed"

\* The moves of the state machine; Closed is entered on an error from any
\* state of a session, and the next session begins at Connecting.
PhaseMoves ==
    {<<"None", "Connecting">>, <<"Connecting", "Authenticating">>,
     <<"Authenticating", "Draining">>, <<"Draining", "Idling">>,
     <<"Idling", "Draining">>, <<"Connecting", "Closed">>,
     <<"Authenticating", "Closed">>, <<"Draining", "Closed">>,
     <<"Idling", "Closed">>, <<"Closed", "Connecting">>}

\* C19: a session changes state along the moves of the state machine only;
\* LOGIN is the first command and any other is issued after it succeeded;
\* FETCH directly follows the SELECT of its iteration, whose count was
\* positive, and the command after EXPUNGE is a new SELECT; and doIdle is
\* entered only from a SELECT or FETCH that found the INBOX empty, IDLE being
\* the command right after it.
C19_StateMachine ==
    [][\A i \in Tasks :
          LET a == connectedTo[i] IN
          /\ Phase(i)' # Phase(i) => <<Phase(i), Phase(i)'>> \in PhaseMoves
          /\ (lastCmd'[i] # lastCmd[i] /\ lastCmd'[i].op \notin {"NONE", "LOGIN"}) =>
                client[i] \in {"authed", "selected", "idling"}
          /\ Issues(i, "LOGIN") => lastCmd[i] = NoCmd /\ client[i] = "connected"
          /\ Issues(i, "FETCH") =>
                /\ lastCmd[i].op = "SELECT"
                /\ numMessages[i] > 0
          /\ (pc[i] = "select" /\ pc'[i] \in {"fetch", "idle"}) =>
                /\ Issues(i, "SELECT")
                /\ numMessages'[i] = Len(inbox[a])
                /\ pc'[i] = "fetch" <=> numMessages'[i] > 0
          /\ (lastCmd[i].op = "EXPUNGE" /\ lastCmd'[i] # lastCmd[i]) =>
                lastCmd'[i].op \in {"SELECT", "NONE"}
          /\ (pc[i] # "idle" /\ pc'[i] = "idle") =>
                /\ pc[i] \in {"select", "fetch"}
                /\ Len(inbox[a]) = 0
                /\ msg'[i] = NoMsg
          /\ Issues(i, "IDLE") =>
                /\ pc[i] = "idle"
                /\ lastCmd[i].op \in {"SELECT", "FETCH"}
    ]_vars

\* A session that drained a message, idled and is back in its drain loop
\* with a new message to select.
C19_Witness ==
    \E i \in Tasks :
       /\ pc[i] = "select"
       /\ lastCmd[i].op = "DONE"
       /\ gmail[connectedTo[i]] # {}
       /\ err[i] = "none"
       /\ Len(inbox[connectedTo[i]]) >= 1
\* C20: doIdle is never entered with a message in the INBOX the session
\* could have seen, and its wait runs under a timer of maxPollTime; so when
\* no operation of the goroutine ever fails, every message that is in the
\* INBOX, whenever it came and whether or not a notification for it reached
\* doIdle, is later imported to Gmail (or has been removed by another
\* client), after at most the one wait that was under way or about to begin
\* when it came.
C20_NoMessageLeftBehind ==
    /\ [][(pc[1] # "idle" /\ pc'[1] = "idle") => inbox'["A"] = <<>>]_vars
    /\ [](pc[1] = "wait" => timer[1] = maxPollTime /\ ENABLED TimerFire(1))
    /\ [](err[1] = "none") =>
          \A u \in 1..MaxUid :
             (u \in Range(inbox["A"])) ~>
                (u \in gmail["A"] \/ u \notin Range(inbox["A"]))

\* The session waits in doIdle with a message in the INBOX and no
\* notification on its way: only the timer can end the wait.
C20_Witness ==
    /\ pc[1] = "wait"
    /\ err[1] = "none"
    /\ Len(inbox["A"]) >= 1
    /\ inbox["A"][1] \notin gmail["A"]
    /\ pending[1] = {}
    /\ timer[1] = maxPollTime
\* C21: doSession returns only in a step in which one of its operations
\* fails, and what it returns is that error; the cool-down and the restart
\* after it are reached only with an error returned; and a session none of
\* whose operations ever fails never returns: it is in its drain loop again
\* and again and in doIdle again and again.
C21_NoSuccessfulReturn ==
    /\ [][\A i \in Tasks :
            /\ (pc[i] \notin {"unborn", "sleep"} /\ pc'[i] = "sleep") =>
                  /\ Fails(i)
                  /\ err'[i] # "none"
            /\ (pc[i] = "sleep" /\ pc'[i] # "sleep") =>
                  /\ err[i] # "none"
                  /\ pc'[i] = "session"
       ]_vars
    /\ [](\A i \in Tasks : pc[i] = "sleep" => err[i] # "none")
    /\ [](err[1] = "none") =>
          /\ [](pc[1] # "sleep")
          /\ []<>(Phase(1) = "Draining")
          /\ []<>(Phase(1) = "Idling")

\* doSession returned the error of idle.Wait(), the cool-down is over and
\* main's loop is about to call doSession again.
C21_Witness ==
    \E i \in Tasks :
       /\ pc[i] = "session"
       /\ err[i] = "idleWait"
       /\ client[i] = "closed"
       /\ timer[i] = 0
====
